---- MODULE Spec2Model ----
(***************************************************************************)
(* A model of pkg/utils/selector.go: the pod selection pipeline            *)
(* (SelectPods), the single-pod membership test (CheckPodMeetSelector),    *)
(* the requirement filters, the mode sampler (filterPodsByMode) and the    *)
(* fixed-index random sampler (RandomFixedIndexes).                        *)
(***************************************************************************)
EXTENDS Integers, Sequences, FiniteSets, TLC

VARIABLES rfi, fpm, flt, env, sel, chk

vars == <<rfi, fpm, flt, env, sel, chk>>

selectVars == <<env, sel, chk>>

SeqDistinct(s) == \A a, b \in 1 .. Len(s) : a # b => s[a] # s[b]

SeqSet(s) == {s[k] : k \in 1 .. Len(s)}

SeqsUpTo(S, n) == UNION {[1 .. k -> S] : k \in 0 .. n}

(***************************************************************************)
(* Bounds of the model.                                                    *)
(***************************************************************************)
\* largest start / end handed to RandomFixedIndexes
MaxIdx == 3
\* largest count handed to RandomFixedIndexes
MaxCount == 4
\* largest pod list handed to filterPodsByMode
MaxPool == 3
\* longest pod list handed to a requirement filter on its own
MaxList == 2
\* most fragments of an expression handed to a requirement filter on its own
MaxReqs == 3
\* most entries of selector.Nodes
MaxNodes == 2
\* most entries of selector.Namespaces in the comparison of the two entry points
MaxFrags == 1

(***************************************************************************)
(* RandomFixedIndexes(start, end, count), selector.go:533-563.             *)
(* rfi models one activation: its arguments, the locals indexes, m and i,  *)
(* and whether rand.Intn has been called (drew).                           *)
(***************************************************************************)
RfiIdle ==
    [pc |-> "idle", start |-> 0, end |-> 0, count |-> 0,
     indexes |-> <<>>, m |-> {}, i |-> 0, drew |-> FALSE]

RfiCall(start, end, count) ==
    [pc |-> "entry", start |-> start, end |-> end, count |-> count,
     indexes |-> <<>>, m |-> {}, i |-> 0, drew |-> FALSE]

\* for i := start; i < end; i++ { indexes = append(indexes, i) }
RECURSIVE AscendingRange(_, _)
AscendingRange(i, end) ==
    IF i < end THEN <<i>> \o AscendingRange(i + 1, end) ELSE <<>>

\* the values uint(rand.Intn(int(end-start))) + start can take
DrawRangeShort(start, end) == start .. (end - 2)

DrawRange(start, end) == start .. (end - 1)

\* _, exist := m[index]
existNever(m, index) == FALSE

exist(m, index) == index \in m

\* the fallback test "count > end-start"
fallbackInclusive(start, end, count) == count >= end - start

fallback(start, end, count) == count > end - start

RFI_Entry ==
    /\ rfi.pc = "entry"
    /\ rfi' = IF rfi.end < rfi.start
                THEN [rfi EXCEPT !.pc = "done"]
              ELSE IF fallback(rfi.start, rfi.end, rfi.count)
                THEN [rfi EXCEPT !.pc = "done",
                                 !.indexes = AscendingRange(rfi.start, rfi.end)]
              ELSE [rfi EXCEPT !.pc = "loop", !.i = 0]

\* one iteration of the loop body that draws `index`
RFI_DrawStep(index) ==
    /\ rfi.pc = "loop"
    /\ rfi.i < rfi.count
    /\ rfi.end - rfi.start > 0
    /\ index \in DrawRange(rfi.start, rfi.end)
    /\ rfi' = IF exist(rfi.m, index)
                THEN [rfi EXCEPT !.drew = TRUE]
                ELSE [rfi EXCEPT !.drew = TRUE,
                                 !.m = @ \cup {index},
                                 !.indexes = Append(@, index),
                                 !.i = @ + 1]

\* the loop body; rand.Intn(n) panics when n <= 0
RFI_Draw ==
    /\ rfi.pc = "loop"
    /\ rfi.i < rfi.count
    /\ IF rfi.end - rfi.start <= 0
         THEN rfi' = [rfi EXCEPT !.pc = "panic"]
         ELSE \E index \in 0 .. (rfi.end - 1) : RFI_DrawStep(index)

\* the loop condition i < int(count) fails: return indexes
RFI_Exit ==
    /\ rfi.pc = "loop"
    /\ ~(rfi.i < rfi.count)
    /\ rfi' = [rfi EXCEPT !.pc = "done"]

RFI_Step == RFI_Entry \/ RFI_Draw \/ RFI_Exit

(***************************************************************************)
(* filterPodsByMode(pods, mode, value), selector.go:273-339, with          *)
(* getFixedSubListFromPodList, selector.go:518-529.                        *)
(***************************************************************************)
OnePodMode == "one"
AllPodMode == "all"
FixedPodMode == "fixed"
FixedPercentPodMode == "fixed-percent"
RandomMaxPercentPodMode == "random-max-percent"

PodModes ==
    {OnePodMode, AllPodMode, FixedPodMode, FixedPercentPodMode,
     RandomMaxPercentPodMode, "unknown"}

\* the value strings tried, with what strconv.Atoi makes of each
ValueTexts == {"abc", "-3", "0", "2", "9", "50", "100", "101"}

Atoi(value) ==
    CASE value = "-3"  -> [err |-> FALSE, num |-> -3]
      [] value = "0"   -> [err |-> FALSE, num |-> 0]
      [] value = "2"   -> [err |-> FALSE, num |-> 2]
      [] value = "9"   -> [err |-> FALSE, num |-> 9]
      [] value = "50"  -> [err |-> FALSE, num |-> 50]
      [] value = "100" -> [err |-> FALSE, num |-> 100]
      [] value = "101" -> [err |-> FALSE, num |-> 101]
      [] OTHER         -> [err |-> TRUE, num |-> 0]

\* int(math.Floor(float64(len(pods)) * float64(percentage) / 100))
PercentOfCeil(len, percentage) == (len * percentage + 99) \div 100

PercentOf(len, percentage) == (len * percentage) \div 100

\* the test "num <= 0" of the fixed mode
fixedRejects(num) == num <= 0

FpmIdle ==
    [pc |-> "idle", pods |-> <<>>, mode |-> AllPodMode, value |-> "0",
     result |-> <<>>, err |-> FALSE]

FpmCall(pods, mode, value) ==
    [pc |-> "call", pods |-> pods, mode |-> mode, value |-> value,
     result |-> <<>>, err |-> FALSE]

FpmFail == [fpm EXCEPT !.pc = "done", !.err = TRUE, !.result = <<>>]

FpmOk(result) == [fpm EXCEPT !.pc = "done", !.err = FALSE, !.result = result]

\* getFixedSubListFromPodList: call RandomFixedIndexes(0, len(pods), num)
FpmSample(num) ==
    /\ fpm' = [fpm EXCEPT !.pc = "sampling"]
    /\ rfi' = RfiCall(0, Len(fpm.pods), num)

\* the body of filterPodsByMode up to its return or its sampling call
FPM_Call ==
    /\ fpm.pc = "call"
    /\ LET len == Len(fpm.pods)
           parsed == Atoi(fpm.value)
       IN  IF len = 0
             THEN fpm' = FpmFail /\ UNCHANGED rfi
           ELSE IF fpm.mode = OnePodMode
             THEN \E index \in 0 .. (len - 1) :
                     fpm' = FpmOk(<<fpm.pods[index + 1]>>) /\ UNCHANGED rfi
           ELSE IF fpm.mode = AllPodMode
             THEN fpm' = FpmOk(fpm.pods) /\ UNCHANGED rfi
           ELSE IF fpm.mode = FixedPodMode
             THEN IF parsed.err
                    THEN fpm' = FpmFail /\ UNCHANGED rfi
                    ELSE LET num == IF len < parsed.num THEN len ELSE parsed.num
                         IN  IF fixedRejects(num)
                               THEN fpm' = FpmFail /\ UNCHANGED rfi
                               ELSE FpmSample(num)
           ELSE IF fpm.mode = FixedPercentPodMode
             THEN IF parsed.err \/ parsed.num = 0
                       \/ parsed.num < 0 \/ parsed.num > 100
                    THEN fpm' = FpmFail /\ UNCHANGED rfi
                    ELSE FpmSample(PercentOf(len, parsed.num))
           ELSE IF fpm.mode = RandomMaxPercentPodMode
             THEN IF parsed.err \/ parsed.num = 0
                       \/ parsed.num < 0 \/ parsed.num > 100
                    THEN fpm' = FpmFail /\ UNCHANGED rfi
                    ELSE \E percentage \in 0 .. parsed.num :
                            FpmSample(PercentOf(len, percentage))
           ELSE fpm' = FpmFail /\ UNCHANGED rfi

\* getFixedSubListFromPodList: collect pods[index] for the indexes returned
FPM_Return ==
    /\ fpm.pc = "sampling"
    /\ rfi.pc = "done"
    /\ fpm' = FpmOk([k \in 1 .. Len(rfi.indexes) |-> fpm.pods[rfi.indexes[k] + 1]])
    /\ UNCHANGED rfi

(***************************************************************************)
(* Pods, nodes and requirement expressions.                                *)
(* A map[string]string is the set of its <<key, value>> pairs.             *)
(***************************************************************************)
MapKeys(m) == {kv[1] : kv \in m}

NamespaceNames == {"default", "kube-system"}

PhaseNames == {"Running", "Pending"}

Pod(ns, name, labels, annotations, phase, nodeName) ==
    [namespace |-> ns, name |-> name, labels |-> labels,
     annotations |-> annotations, phase |-> phase, nodeName |-> nodeName]

\* the pods of the cluster, in the order the client lists them
ClusterPods ==
    << Pod("default", "a", {<<"app", "web">>}, {<<"chaos", "on">>}, "Running", "n1"),
       Pod("default", "b", {}, {}, "Pending", "n2"),
       Pod("kube-system", "a", {<<"app", "web">>}, {}, "Running", "n1"),
       Pod("kube-system", "b", {<<"app", "db">>}, {<<"chaos", "on">>}, "Running", "") >>

\* the nodes of the cluster, in the order the client lists them
ClusterNodes ==
    << [name |-> "n1", labels |-> {<<"zone", "a">>}],
       [name |-> "n2", labels |-> {}] >>

\* labels.Requirement: key and operator
Requirement(key, op) == [key |-> key, op |-> op]

\* the keys a fragment of an expression may name
ExprKeys == NamespaceNames \cup PhaseNames \cup {"chaos"}

\* labels.Parse on the comma-joined fragments: "key" is an Exists
\* requirement, "!key" a DoesNotExist requirement, "key in (v)" an In
\* requirement; anything else does not parse.
ParseFragment(f) ==
    IF f \in ExprKeys
      THEN [err |-> FALSE, req |-> Requirement(f, "exists")]
    ELSE IF \E k \in ExprKeys : f = "!" \o k
      THEN [err |-> FALSE,
            req |-> Requirement(CHOOSE k \in ExprKeys : f = "!" \o k, "!")]
    ELSE IF \E k \in ExprKeys : f = k \o " in (x)"
      THEN [err |-> FALSE,
            req |-> Requirement(CHOOSE k \in ExprKeys : f = k \o " in (x)", "in")]
    ELSE [err |-> TRUE, req |-> Requirement("", "")]

\* parseSelector(strings.Join(fragments, ","))
parseSelector(fragments) ==
    LET parsed == [k \in 1 .. Len(fragments) |-> ParseFragment(fragments[k])]
    IN  IF \E k \in 1 .. Len(fragments) : parsed[k].err
          THEN [err |-> TRUE, reqs |-> <<>>]
          ELSE [err |-> FALSE, reqs |-> [k \in 1 .. Len(fragments) |-> parsed[k].req]]

\* labels.Requirement.Matches(set) for the operators of this model; an In
\* requirement "key in (x)" matches a set holding key with value "x"
reqMatches(req, set) ==
    CASE req.op = "exists" -> req.key \in MapKeys(set)
      [] req.op = "!"      -> req.key \notin MapKeys(set)
      [] OTHER             -> <<req.key, "x">> \in set

\* the loop body of the two requirement filters: included starts as "no
\* including requirement", one matching including requirement sets it, one
\* failing excluding requirement clears it
includedAll(reqIncl, reqExcl, set) ==
    LET afterIncl == \A k \in 1 .. Len(reqIncl) : reqMatches(reqIncl[k], set)
    IN  IF \E k \in 1 .. Len(reqExcl) : ~reqMatches(reqExcl[k], set)
          THEN FALSE
          ELSE afterIncl

included(reqIncl, reqExcl, set) ==
    LET afterIncl == \/ Len(reqIncl) = 0
                     \/ \E k \in 1 .. Len(reqIncl) : reqMatches(reqIncl[k], set)
    IN  IF \E k \in 1 .. Len(reqExcl) : ~reqMatches(reqExcl[k], set)
          THEN FALSE
          ELSE afterIncl

IsExists(req) == req.op = "exists"

IsDoesNotExist(req) == req.op = "!"

\* filterByNamespaceSelector(pods, namespaces): [pods, err]
filterByNamespaceSelector(pods, namespaces) ==
    IF Len(namespaces) = 0
      THEN [pods |-> pods, err |-> FALSE]
    ELSE IF \E k \in 1 .. Len(namespaces) :
               ~IsExists(namespaces[k]) /\ ~IsDoesNotExist(namespaces[k])
      THEN [pods |-> <<>>, err |-> TRUE]
    ELSE LET reqIncl == SelectSeq(namespaces, IsExists)
             reqExcl == SelectSeq(namespaces, IsDoesNotExist)
             keep(pod) == included(reqIncl, reqExcl, {<<pod.namespace, "">>})
         IN  [pods |-> SelectSeq(pods, keep), err |-> FALSE]

\* filterByPhaseSelector(pods, phases): [pods, err]
filterByPhaseSelector(pods, phases) ==
    IF Len(phases) = 0
      THEN [pods |-> pods, err |-> FALSE]
    ELSE IF \E k \in 1 .. Len(phases) :
               ~IsExists(phases[k]) /\ ~IsDoesNotExist(phases[k])
      THEN [pods |-> <<>>, err |-> TRUE]
    ELSE LET reqIncl == SelectSeq(phases, IsExists)
             reqExcl == SelectSeq(phases, IsDoesNotExist)
             keep(pod) == included(reqIncl, reqExcl, {<<pod.phase, "">>})
         IN  [pods |-> SelectSeq(pods, keep), err |-> FALSE]

(***************************************************************************)
(* The namespace policy, selector.go:416-449.  cfg is                      *)
(* common.ControllerCfg: the AllowedNamespaces and IgnoredNamespaces       *)
(* patterns ("" when unset).                                               *)
(***************************************************************************)
\* regexp.MatchString for the patterns of this model: "(" does not compile,
\* "^name$" matches exactly name
RegexpMatchString(pattern, str) ==
    IF pattern = "("
      THEN [err |-> TRUE, matched |-> FALSE]
      ELSE [err |-> FALSE, matched |-> (pattern = "^" \o str \o "$")]

IsAllowedNamespaces(cfg, namespace) ==
    IF cfg.AllowedNamespaces # ""
      THEN LET r == RegexpMatchString(cfg.AllowedNamespaces, namespace)
           IN  IF r.err THEN FALSE ELSE r.matched
    ELSE IF cfg.IgnoredNamespaces # ""
      THEN LET r == RegexpMatchString(cfg.IgnoredNamespaces, namespace)
           IN  IF r.err THEN FALSE ELSE ~r.matched
    ELSE TRUE

filterByNamespaces(cfg, pods) ==
    LET allowed(pod) == IsAllowedNamespaces(cfg, pod.namespace)
    IN  SelectSeq(pods, allowed)

(***************************************************************************)
(* The annotation filter, selector.go:342-361.                             *)
(***************************************************************************)
\* label.Label(selector.AnnotationSelectors).String(): the map rendered as the
\* fragments of an expression, one per key, in some order
AnnotationFragments(m) ==
    CHOOSE f \in [1 .. Cardinality(MapKeys(m)) -> MapKeys(m)] :
        \A a, b \in 1 .. Cardinality(MapKeys(m)) : a # b => f[a] # f[b]

filterByAnnotations(pods, annotations) ==
    IF Len(annotations) = 0
      THEN pods
      ELSE LET matches(pod) ==
                   \A k \in 1 .. Len(annotations) :
                       reqMatches(annotations[k], pod.annotations)
           IN  SelectSeq(pods, matches)

(***************************************************************************)
(* The node filter, selector.go:257-270.                                   *)
(***************************************************************************)
RECURSIVE filterPodByNodeFrom(_, _, _)
filterPodByNodeFrom(pods, nodes, k) ==
    IF k > Len(pods) THEN <<>>
    ELSE LET pod == pods[k]
             hit(node) == pod.nodeName = node.name
             hits == SelectSeq(nodes, hit)
         IN  [j \in 1 .. Len(hits) |-> pod] \o filterPodByNodeFrom(pods, nodes, k + 1)

filterPodByNode(pods, nodes) ==
    IF Len(nodes) = 0 THEN <<>> ELSE filterPodByNodeFrom(pods, nodes, 1)

(***************************************************************************)
(* The client.  c holds the cluster (pods, nodes) and the calls that fail  *)
(* with an error other than not-found: fail.getPod (pod identities),       *)
(* fail.listPods, fail.getNode (node names), fail.listNodes.               *)
(***************************************************************************)
\* labels.SelectorFromSet(set).Matches(labels): every pair of set is in labels
SetMatches(set, labels) == set \subseteq labels

\* the fields a field selector may name
PodFields(pod) ==
    {<<"metadata.namespace", pod.namespace>>, <<"metadata.name", pod.name>>,
     <<"spec.nodeName", pod.nodeName>>, <<"status.phase", pod.phase>>}

\* c.Get(ctx, types.NamespacedName{Namespace: ns, Name: name}, &pod)
GetPod(c, ns, name) ==
    IF <<ns, name>> \in c.fail.getPod
      THEN [status |-> "error"]
    ELSE IF \E k \in 1 .. Len(c.pods) :
               c.pods[k].namespace = ns /\ c.pods[k].name = name
      THEN [status |-> "ok",
            pod |-> c.pods[CHOOSE k \in 1 .. Len(c.pods) :
                              c.pods[k].namespace = ns /\ c.pods[k].name = name]]
    ELSE [status |-> "notfound"]

\* c.List(ctx, &podList, &listOptions)
ListPods(c, labelSelectors, fieldSelectors) ==
    IF c.fail.listPods
      THEN [err |-> TRUE, items |-> <<>>]
      ELSE LET match(pod) == /\ SetMatches(labelSelectors, pod.labels)
                             /\ fieldSelectors \subseteq PodFields(pod)
           IN  [err |-> FALSE, items |-> SelectSeq(c.pods, match)]

\* c.Get(ctx, types.NamespacedName{Name: nodename}, &node)
GetNode(c, nodename) ==
    IF nodename \in c.fail.getNode
      THEN [status |-> "error"]
    ELSE IF \E k \in 1 .. Len(c.nodes) : c.nodes[k].name = nodename
      THEN [status |-> "ok",
            node |-> c.nodes[CHOOSE k \in 1 .. Len(c.nodes) : c.nodes[k].name = nodename]]
    ELSE [status |-> "notfound"]

\* c.List(ctx, &nodeList, &nodeListOptions)
ListNodes(c, nodeSelectors) ==
    IF c.fail.listNodes
      THEN [err |-> TRUE, items |-> <<>>]
      ELSE LET match(node) == SetMatches(nodeSelectors, node.labels)
           IN  [err |-> FALSE, items |-> SelectSeq(c.nodes, match)]

(***************************************************************************)
(* SelectPods(ctx, c, selector), selector.go:81-181.                       *)
(* `order` is the order in which range visits selector.Pods.  The result   *)
(* records, beside pods and err: the stages run, the calls that failed     *)
(* with an error other than not-found (faults), the bulk list (fetched),   *)
(* the resolved nodes and the output of the node stage (nodeOut).          *)
(***************************************************************************)
SelectResult(pods, err, stages, faults, fetched, nodes, nodeOut) ==
    [pods |-> pods, err |-> err, stages |-> stages, faults |-> faults,
     fetched |-> fetched, nodes |-> nodes, nodeOut |-> nodeOut]

\* lines 87-89: a namespace the policy rejects is logged; its pods are fetched
skipsRejectedNamespace(cfg, ns) == ~IsAllowedNamespaces(cfg, ns)

skipsNamespace(cfg, ns) == FALSE

\* the (namespace, name) pairs in the order the two loops visit them
RECURSIVE ExplicitPairs(_, _, _)
ExplicitPairs(cfg, order, k) ==
    IF k > Len(order) THEN <<>>
    ELSE LET ns == order[k][1]
             names == order[k][2]
         IN  (IF skipsNamespace(cfg, ns) THEN <<>>
              ELSE [j \in 1 .. Len(names) |-> <<ns, names[j]>>])
             \o ExplicitPairs(cfg, order, k + 1)

\* lines 90-107: fetch each pair; not-found is skipped, another error aborts
RECURSIVE ExplicitFetch(_, _, _, _)
ExplicitFetch(c, pairs, k, pods) ==
    IF k > Len(pairs) THEN [pods |-> pods, err |-> FALSE]
    ELSE LET got == GetPod(c, pairs[k][1], pairs[k][2])
         IN  IF got.status = "ok"
               THEN ExplicitFetch(c, pairs, k + 1, Append(pods, got.pod))
             ELSE IF got.status = "notfound"
               THEN ExplicitFetch(c, pairs, k + 1, pods)
             ELSE [pods |-> <<>>, err |-> TRUE]

\* lines 134-143: fetch each named node; any error skips the node
RECURSIVE NamedNodes(_, _, _)
NamedNodes(c, names, k) ==
    IF k > Len(names) THEN <<>>
    ELSE LET got == GetNode(c, names[k])
         IN  (IF got.status = "ok" THEN <<got.node>> ELSE <<>>)
             \o NamedNodes(c, names, k + 1)

\* lines 154-180: the stages after the node stage
SelectTail(cfg, selector, pods, stages, faults, fetched, nodes, nodeOut) ==
    LET fail(st) == SelectResult(<<>>, TRUE, st, faults, fetched, nodes, nodeOut)
        p1 == filterByNamespaces(cfg, pods)
        s1 == Append(stages, "policy")
        namespaceSelector == parseSelector(selector.Namespaces)
        r2 == filterByNamespaceSelector(p1, namespaceSelector.reqs)
        s2 == Append(s1, "namespace")
        annotationsSelector == parseSelector(AnnotationFragments(selector.AnnotationSelectors))
        p3 == filterByAnnotations(r2.pods, annotationsSelector.reqs)
        s3 == Append(s2, "annotation")
        phaseSelector == parseSelector(selector.PodPhaseSelectors)
        r4 == filterByPhaseSelector(p3, phaseSelector.reqs)
        s4 == Append(s3, "phase")
    IN  IF namespaceSelector.err THEN fail(s1)
        ELSE IF r2.err THEN fail(s2)
        ELSE IF annotationsSelector.err THEN fail(s2)
        ELSE IF phaseSelector.err THEN fail(s3)
        ELSE IF r4.err THEN fail(s4)
        ELSE SelectResult(r4.pods, FALSE, s4, faults, fetched, nodes, nodeOut)

SelectPods(c, cfg, selector, order) ==
    IF Cardinality(selector.Pods) > 0
      THEN LET r == ExplicitFetch(c, ExplicitPairs(cfg, order, 1), 1, <<>>)
           IN  SelectResult(r.pods, r.err, <<"explicit">>,
                            IF r.err THEN {"getPod"} ELSE {}, <<>>, <<>>, <<>>)
    ELSE LET listed == ListPods(c, selector.LabelSelectors, selector.FieldSelectors)
             pods == listed.items
             nodeStage == Len(selector.Nodes) > 0 \/ Cardinality(selector.NodeSelectors) > 0
             named == NamedNodes(c, selector.Nodes, 1)
             nodeFaults ==
                 IF \E k \in 1 .. Len(selector.Nodes) :
                        GetNode(c, selector.Nodes[k]).status = "error"
                   THEN {"getNode"} ELSE {}
             nodeList == ListNodes(c, selector.NodeSelectors)
             nodes == IF Cardinality(selector.NodeSelectors) > 0
                        THEN named \o nodeList.items ELSE named
         IN  IF listed.err
               THEN SelectResult(<<>>, TRUE, <<"list">>, {"listPods"}, <<>>, <<>>, <<>>)
             ELSE IF ~nodeStage
               THEN SelectTail(cfg, selector, pods, <<"list">>, {}, pods, <<>>, <<>>)
             ELSE IF Cardinality(selector.NodeSelectors) > 0 /\ nodeList.err
               THEN SelectResult(<<>>, TRUE, <<"list", "node">>,
                                 nodeFaults \cup {"listNodes"}, pods, named, <<>>)
             ELSE LET nodeOut == filterPodByNode(pods, nodes)
                  IN  SelectTail(cfg, selector, nodeOut, <<"list", "node">>,
                                 nodeFaults, pods, nodes, nodeOut)

(***************************************************************************)
(* CheckPodMeetSelector(pod, selector), selector.go:185-255: [ok, err].    *)
(***************************************************************************)
\* lines 186-203: "rejected" when the loop returns false, else "passed"
RECURSIVE ExplicitMeet(_, _, _, _)
ExplicitMeet(pod, order, k, meet) ==
    IF k > Len(order) THEN "passed"
    ELSE LET ns == order[k][1]
             names == order[k][2]
         IN  IF pod.namespace # ns
               THEN ExplicitMeet(pod, order, k + 1, meet)
               ELSE LET meet2 == meet \/ \E j \in 1 .. Len(names) : pod.name = names[j]
                    IN  IF ~meet2 THEN "rejected"
                        ELSE ExplicitMeet(pod, order, k + 1, meet2)

\* lines 214-220
labelsRejectNever(labelSelectors, pod) == FALSE

labelsReject(labelSelectors, pod) ==
    /\ Cardinality(labelSelectors) > 0
    /\ \/ Cardinality(pod.labels) = 0
       \/ ~SetMatches(labelSelectors, pod.labels)

CheckPodMeetSelector(pod, selector, order) ==
    LET no == [ok |-> FALSE, err |-> FALSE]
        failed == [ok |-> FALSE, err |-> TRUE]
        namespaceSelector == parseSelector(selector.Namespaces)
        r1 == filterByNamespaceSelector(<<pod>>, namespaceSelector.reqs)
        annotationsSelector == parseSelector(AnnotationFragments(selector.AnnotationSelectors))
        p2 == filterByAnnotations(r1.pods, annotationsSelector.reqs)
        phaseSelector == parseSelector(selector.PodPhaseSelectors)
        r3 == filterByPhaseSelector(p2, phaseSelector.reqs)
    IN  IF Cardinality(selector.Pods) > 0 /\ ExplicitMeet(pod, order, 1, FALSE) = "rejected"
          THEN no
        ELSE IF labelsReject(selector.LabelSelectors, pod) THEN no
        ELSE IF namespaceSelector.err THEN failed
        ELSE IF r1.err THEN failed
        ELSE IF annotationsSelector.err THEN failed
        ELSE IF phaseSelector.err THEN failed
        ELSE IF r3.err THEN failed
        ELSE [ok |-> Len(r3.pods) > 0, err |-> FALSE]

(***************************************************************************)
(* Activations of the two entry points.  env is the client and the         *)
(* controller configuration; sel a call of SelectPods; chk a call of      *)
(* CheckPodMeetSelector on one pod of the cluster.                         *)
(***************************************************************************)
SelectorSpec(pods, labels, fields, nodes, nodeLabels, namespaces, annotations, phases) ==
    [Pods |-> pods, LabelSelectors |-> labels,
     FieldSelectors |-> fields, Nodes |-> nodes,
     NodeSelectors |-> nodeLabels, Namespaces |-> namespaces,
     AnnotationSelectors |-> annotations,
     PodPhaseSelectors |-> phases]

EmptySelector == SelectorSpec({}, {}, {}, <<>>, {}, <<>>, {}, <<>>)

NoResult == SelectResult(<<>>, FALSE, <<>>, {}, <<>>, <<>>, <<>>)

NoFail == [getPod |-> {}, listPods |-> FALSE, getNode |-> {}, listNodes |-> FALSE]

Client(fail) == [pods |-> ClusterPods, nodes |-> ClusterNodes, fail |-> fail]

ControllerCfg(allowed, ignored) ==
    [AllowedNamespaces |-> allowed, IgnoredNamespaces |-> ignored]

SelIdle == [pc |-> "idle", selector |-> EmptySelector, result |-> NoResult]

MeetIdle ==
    [pc |-> "idle", pod |-> ClusterPods[1], selector |-> EmptySelector,
     result |-> [ok |-> FALSE, err |-> FALSE]]

SelectIdle ==
    /\ env = [c |-> Client(NoFail), cfg |-> ControllerCfg("", "")]
    /\ sel = SelIdle
    /\ chk = MeetIdle

\* the orders in which range may visit a map
Perms(S) ==
    {f \in [1 .. Cardinality(S) -> S] :
        \A a, b \in 1 .. Cardinality(S) : a # b => f[a] # f[b]}

SelectPodsCall ==
    /\ sel.pc = "call"
    /\ \E order \in Perms(sel.selector.Pods) :
          sel' = [sel EXCEPT !.pc = "done",
                             !.result = SelectPods(env.c, env.cfg, sel.selector, order)]
    /\ UNCHANGED <<rfi, fpm, flt, env, chk>>

CheckPodMeetSelectorCall ==
    /\ chk.pc = "call"
    /\ \E order \in Perms(chk.selector.Pods) :
          chk' = [chk EXCEPT !.pc = "done",
                               !.result = CheckPodMeetSelector(chk.pod, chk.selector, order)]
    /\ UNCHANGED <<rfi, fpm, flt, env, sel>>

(***************************************************************************)
(* A requirement filter called on its own: flt holds the arguments (the    *)
(* pod list and the fragments of the expression) and the result.           *)
(***************************************************************************)
FltIdle ==
    [pc |-> "idle", kind |-> "namespace", pods |-> <<>>, fragments |-> <<>>,
     out |-> <<>>, err |-> FALSE]

FltCall(kind, pods, fragments) ==
    [pc |-> "call", kind |-> kind, pods |-> pods, fragments |-> fragments,
     out |-> <<>>, err |-> FALSE]

FltReturn(parsed, filtered) ==
    IF parsed.err
      THEN [flt EXCEPT !.pc = "done", !.err = TRUE, !.out = <<>>]
      ELSE [flt EXCEPT !.pc = "done", !.err = filtered.err, !.out = filtered.pods]

FilterByNamespaceSelectorCall ==
    /\ flt.pc = "call"
    /\ flt.kind = "namespace"
    /\ LET parsed == parseSelector(flt.fragments)
       IN  flt' = FltReturn(parsed, filterByNamespaceSelector(flt.pods, parsed.reqs))
    /\ UNCHANGED <<rfi, fpm, selectVars>>

FilterByPhaseSelectorCall ==
    /\ flt.pc = "call"
    /\ flt.kind = "phase"
    /\ LET parsed == parseSelector(flt.fragments)
       IN  flt' = FltReturn(parsed, filterByPhaseSelector(flt.pods, parsed.reqs))
    /\ UNCHANGED <<rfi, fpm, selectVars>>

(***************************************************************************)
(* Specification of RandomFixedIndexes alone.                              *)
(***************************************************************************)

InitRFI ==
    /\ \E start \in 0 .. MaxIdx, end \in 0 .. MaxIdx, count \in 0 .. MaxCount :
          rfi = RfiCall(start, end, count)
    /\ fpm = FpmIdle
    /\ flt = FltIdle
    /\ SelectIdle

RfiEntry == RFI_Entry /\ UNCHANGED <<fpm, flt, selectVars>>
RfiDraw == RFI_Draw /\ UNCHANGED <<fpm, flt, selectVars>>
RfiExit == RFI_Exit /\ UNCHANGED <<fpm, flt, selectVars>>

NextRFI == RfiEntry \/ RfiDraw \/ RfiExit

SpecRFI == InitRFI /\ [][NextRFI]_vars

\* the program runs on, and the random source withholds no index forever
FairSpecRFI ==
    /\ SpecRFI
    /\ WF_vars(RfiEntry)
    /\ WF_vars(RfiExit)
    /\ \A k \in 0 .. MaxIdx : WF_vars(RFI_DrawStep(k) /\ UNCHANGED <<fpm, flt, selectVars>>)

(***************************************************************************)
(* Specification of filterPodsByMode: a call on any list of up to MaxPool  *)
(* distinct pods, with any mode and value.                                 *)
(***************************************************************************)
PodIds == 1 .. MaxPool

Pools ==
    UNION {{p \in [1 .. n -> PodIds] : \A a, b \in 1 .. n : a # b => p[a] # p[b]} :
             n \in 0 .. MaxPool}

InitMode ==
    /\ \E pods \in Pools, mode \in PodModes, value \in ValueTexts :
          fpm = FpmCall(pods, mode, value)
    /\ rfi = RfiIdle
    /\ flt = FltIdle
    /\ SelectIdle

FpmCallStep == FPM_Call /\ UNCHANGED <<flt, selectVars>>
FpmReturnStep == FPM_Return /\ UNCHANGED <<flt, selectVars>>

NextMode == FpmCallStep \/ FpmReturnStep \/ RfiEntry \/ RfiDraw \/ RfiExit

SpecMode == InitMode /\ [][NextMode]_vars

(***************************************************************************)
(* Specification of the requirement filters: a call of either filter on    *)
(* any list of up to MaxList cluster pods with any expression of up to     *)
(* MaxReqs fragments over the namespaces (or the phases).                  *)
(***************************************************************************)
\* the fragments over `keys`: "key", "!key", and one set-based requirement
FragmentsOver(keys, inKey) ==
    keys \cup {"!" \o k : k \in keys} \cup {inKey \o " in (x)"}

InitFilter ==
    /\ \E pods \in SeqsUpTo(SeqSet(ClusterPods), MaxList) :
          \/ \E fragments \in SeqsUpTo(FragmentsOver(NamespaceNames, "default"), MaxReqs) :
                flt = FltCall("namespace", pods, fragments)
          \/ \E fragments \in SeqsUpTo(FragmentsOver(PhaseNames, "Running"), MaxReqs) :
                flt = FltCall("phase", pods, fragments)
    /\ rfi = RfiIdle
    /\ fpm = FpmIdle
    /\ SelectIdle

NextFilter == FilterByNamespaceSelectorCall \/ FilterByPhaseSelectorCall

SpecFilter == InitFilter /\ [][NextFilter]_vars

(***************************************************************************)
(* Specification of SelectPods: a call with any selector of the families   *)
(* below, under any of the policies, with at most one failing call.        *)
(***************************************************************************)
\* selector.Pods: namespace -> names
PodsMaps ==
    { {},
      {<<"default", <<"a">>>>},
      {<<"default", <<"b", "ghost">>>>},
      {<<"kube-system", <<"a">>>>, <<"default", <<"a", "b">>>>} }

LabelMaps == { {}, {<<"app", "web">>} }

FieldMaps == { {}, {<<"status.phase", "Running">>} }

NodeLabelMaps == { {}, {<<"zone", "a">>} }

AnnotationMaps == { {}, {<<"chaos", "on">>} }

NodeNameLists == SeqsUpTo({"n1", "n2", "ghost"}, MaxNodes)

Policies ==
    { ControllerCfg("", ""), ControllerCfg("^kube-system$", ""),
      ControllerCfg("", "^kube-system$"), ControllerCfg("(", "^default$") }

Failures ==
    { NoFail,
      [NoFail EXCEPT !.getPod = {<<"default", "b">>}],
      [NoFail EXCEPT !.listPods = TRUE],
      [NoFail EXCEPT !.getNode = {"n2"}],
      [NoFail EXCEPT !.listNodes = TRUE] }

\* (Namespaces, AnnotationSelectors, PodPhaseSelectors) of the SelectPods runs
RequirementChoices ==
    { <<<<>>, {}, <<>>>>,
      <<<<"kube-system">>, {}, <<"Running">>>>,
      <<<<"!default">>, {<<"chaos", "on">>}, <<>>>>,
      <<<<>>, {}, <<"!Running", "Running in (x)">>>>,
      <<<<"!!">>, {}, <<>>>> }

InitSelect ==
    /\ \E fail \in Failures, cfg \in Policies :
          env = [c |-> Client(fail), cfg |-> cfg]
    /\ \E pods \in PodsMaps, ls \in LabelMaps, fs \in FieldMaps,
          nodes \in NodeNameLists, ns \in NodeLabelMaps, rc \in RequirementChoices :
          sel = [pc |-> "call",
                 selector |-> SelectorSpec(pods, ls, fs, nodes, ns, rc[1], rc[2], rc[3]),
                 result |-> NoResult]
    /\ chk = MeetIdle
    /\ rfi = RfiIdle
    /\ fpm = FpmIdle
    /\ flt = FltIdle

NextSelect == SelectPodsCall

SpecSelect == InitSelect /\ [][NextSelect]_vars

(***************************************************************************)
(* Specification of the two entry points side by side: SelectPods and      *)
(* CheckPodMeetSelector called with the same selector, one without node    *)
(* or field constraints, the latter on any pod of the cluster.             *)
(***************************************************************************)
PhaseLists ==
    { <<>>, <<"Running">>, <<"!Running">>, <<"Pending", "!Pending">>, <<"!!">> }

InitMeet ==
    /\ \E listFails \in BOOLEAN, cfg \in Policies :
          env = [c |-> Client([NoFail EXCEPT !.listPods = listFails]), cfg |-> cfg]
    /\ \E pods \in PodsMaps, ls \in LabelMaps, as \in AnnotationMaps,
          nss \in SeqsUpTo(FragmentsOver(NamespaceNames, "default"), MaxFrags),
          phases \in PhaseLists, k \in 1 .. Len(ClusterPods) :
          LET selector == SelectorSpec(pods, ls, {}, <<>>, {}, nss, as, phases)
          IN  /\ sel = [pc |-> "call", selector |-> selector, result |-> NoResult]
              /\ chk = [pc |-> "call", pod |-> ClusterPods[k], selector |-> selector,
                         result |-> [ok |-> FALSE, err |-> FALSE]]
    /\ rfi = RfiIdle
    /\ fpm = FpmIdle
    /\ flt = FltIdle

NextMeet == SelectPodsCall \/ CheckPodMeetSelectorCall

SpecMeet == InitMeet /\ [][NextMeet]_vars

(***************************************************************************)
(* Properties of RandomFixedIndexes.                                       *)
(***************************************************************************)
\* every index of [start, end), ascending
WholeRange(start, end) == [k \in 1 .. (end - start) |-> start + k - 1]

\* C3 as stated: for start <= end and every count >= end-start, count =
\* end-start included, the result is every index of [start, end) in ascending
\* order and no random draw was made.
C3_FallbackFromEqual ==
    (rfi.pc = "done" /\ rfi.start <= rfi.end /\ rfi.count >= rfi.end - rfi.start)
        => /\ rfi.indexes = WholeRange(rfi.start, rfi.end)
           /\ ~rfi.drew

\* C3 amended: for start <= end and count > end-start the result is every
\* index of [start, end) ascending, without any random draw; for count =
\* end-start the result holds every index of the range exactly once, in the
\* order drawn, and a non-empty range is sampled with random draws.
C3_FallbackAboveRange ==
    (rfi.pc = "done" /\ rfi.start <= rfi.end)
        => /\ rfi.count > rfi.end - rfi.start
                => /\ rfi.indexes = WholeRange(rfi.start, rfi.end)
                   /\ ~rfi.drew
           /\ rfi.count = rfi.end - rfi.start
                => /\ SeqSet(rfi.indexes) = rfi.start .. (rfi.end - 1)
                   /\ Len(rfi.indexes) = rfi.count
                   /\ (rfi.count > 0 => rfi.drew)

C3_Witness ==
    /\ rfi.pc = "done"
    /\ rfi.end - rfi.start >= 2
    /\ rfi.count > rfi.end - rfi.start
    /\ Len(rfi.indexes) = rfi.end - rfi.start

\* C4: for start <= end and 0 <= count <= end-start the result has exactly
\* count indices, pairwise distinct, each in [start, end), whatever was drawn;
\* for end < start the result is empty for any count.
C4_DistinctInRange ==
    rfi.pc = "done"
        => /\ (rfi.start <= rfi.end /\ rfi.count <= rfi.end - rfi.start)
                => /\ Len(rfi.indexes) = rfi.count
                   /\ SeqDistinct(rfi.indexes)
                   /\ \A k \in 1 .. Len(rfi.indexes) :
                         rfi.start <= rfi.indexes[k] /\ rfi.indexes[k] < rfi.end
           /\ rfi.end < rfi.start => rfi.indexes = <<>>

C4_Witness ==
    /\ rfi.pc = "done"
    /\ rfi.drew
    /\ rfi.count >= 2
    /\ rfi.count < rfi.end - rfi.start
    /\ rfi.indexes[1] > rfi.indexes[2]

\* C10: every call terminates under a fair random source; a call with
\* end < start or count > end-start returns without a random draw; no draw is
\* ever made from an empty range.
C10_Terminates ==
    /\ <>(rfi.pc = "done")
    /\ [](rfi.pc # "panic")
    /\ []((rfi.pc = "done" /\ (rfi.end < rfi.start \/ rfi.count > rfi.end - rfi.start))
            => ~rfi.drew)

C10_Witness ==
    /\ rfi.pc = "done"
    /\ rfi.start > 0
    /\ rfi.count = rfi.end - rfi.start
    /\ rfi.i = rfi.count
    /\ rfi.count >= 2

(***************************************************************************)
(* Properties of filterPodsByMode.                                         *)
(***************************************************************************)
Min(a, b) == IF a < b THEN a ELSE b

\* C5: the outcome of filterPodsByMode follows the mode table: an empty list
\* fails whatever the mode; on L pods One returns 1 pod, All the L pods,
\* Fixed(n) fails for n <= 0 and else returns min(n, L) pods, FixedPercent(p)
\* fails for p = 0 or p outside (0,100] and else returns floor(L*p/100) pods,
\* RandomMaxPercent(p) fails for p = 0 or p outside [0,100] and else returns
\* floor(L*q/100) pods for some q in [0,p]; a returned list is taken from
\* pairwise distinct positions of the list, and a failure returns no pods.
C5_ModeTable ==
    fpm.pc = "done" =>
        LET L == Len(fpm.pods)
            v == Atoi(fpm.value)
            n == Len(fpm.result)
            bad == v.err \/ v.num = 0 \/ v.num < 0 \/ v.num > 100
        IN  /\ fpm.err => fpm.result = <<>>
            /\ ~fpm.err => /\ SeqDistinct(fpm.result)
                           /\ SeqSet(fpm.result) \subseteq SeqSet(fpm.pods)
            /\ L = 0 => fpm.err
            /\ (L > 0 /\ fpm.mode = OnePodMode) => (~fpm.err /\ n = 1)
            /\ (L > 0 /\ fpm.mode = AllPodMode) => (~fpm.err /\ fpm.result = fpm.pods)
            /\ (L > 0 /\ fpm.mode = FixedPodMode) =>
                  IF v.err \/ v.num <= 0 THEN fpm.err
                  ELSE ~fpm.err /\ n = Min(v.num, L)
            /\ (L > 0 /\ fpm.mode = FixedPercentPodMode) =>
                  IF bad THEN fpm.err
                  ELSE ~fpm.err /\ n = (L * v.num) \div 100
            /\ (L > 0 /\ fpm.mode = RandomMaxPercentPodMode) =>
                  IF bad THEN fpm.err
                  ELSE ~fpm.err /\ \E q \in 0 .. v.num : n = (L * q) \div 100
            /\ fpm.mode \notin {OnePodMode, AllPodMode, FixedPodMode,
                                FixedPercentPodMode, RandomMaxPercentPodMode}
                  => fpm.err

C5_Witness ==
    /\ fpm.pc = "done"
    /\ fpm.mode = RandomMaxPercentPodMode
    /\ fpm.value = "100"
    /\ Len(fpm.pods) = 3
    /\ Len(fpm.result) = 2
    /\ fpm.result[1] = fpm.pods[3]

(***************************************************************************)
(* Properties of the requirement filters.                                  *)
(***************************************************************************)
FltKey(pod) == IF flt.kind = "namespace" THEN pod.namespace ELSE pod.phase

FltOnlyExistence ==
    \A k \in 1 .. Len(flt.fragments) :
        \E key \in ExprKeys : flt.fragments[k] \in {key, "!" \o key}

\* C7: for a non-empty expression of Exists and DoesNotExist requirements the
\* namespace filter (key = the pod's namespace) and the phase filter (key =
\* the pod's phase) keep a pod iff (no Exists requirement, or some Exists
\* requirement names the pod's key) and no DoesNotExist requirement names it;
\* kept pods stay in input order; an empty expression returns the input.
C7_ExistenceFilter ==
    (flt.pc = "done" /\ FltOnlyExistence) =>
        LET frags == SeqSet(flt.fragments)
            keep(pod) ==
                /\ \/ frags \cap ExprKeys = {}
                   \/ FltKey(pod) \in frags
                /\ ("!" \o FltKey(pod)) \notin frags
        IN  /\ ~flt.err
            /\ flt.out = IF flt.fragments = <<>> THEN flt.pods
                         ELSE SelectSeq(flt.pods, keep)

C7_Witness ==
    /\ flt.pc = "done"
    /\ flt.kind = "phase"
    /\ flt.fragments = <<"Running", "!Pending", "Pending">>
    /\ Len(flt.pods) = 2
    /\ flt.pods[1].phase = "Pending"
    /\ flt.pods[2].phase = "Running"
    /\ Len(flt.out) = 1

(***************************************************************************)
(* Properties of SelectPods and CheckPodMeetSelector.                      *)
(***************************************************************************)
\* the (namespace, name) pairs selector.Pods lists
ListedPairs(selector) ==
    UNION {{<<e[1], e[2][j]>> : j \in 1 .. Len(e[2])} : e \in selector.Pods}

PodId(pod) == <<pod.namespace, pod.name>>

\* C1: with a non-empty selector.Pods, SelectPods runs the explicit stage
\* only and returns exactly the cluster's pods among the listed pairs, one
\* each, untouched by the policy and by the selector's other constraints; it
\* fails, returning nothing, exactly when a fetch fails with another error
\* than not-found.
C1_ExplicitPodsBypass ==
    (sel.pc = "done" /\ sel.selector.Pods # {}) =>
        LET listed == ListedPairs(sel.selector)
            found == {pod \in SeqSet(env.c.pods) : PodId(pod) \in listed}
            r == sel.result
        IN  /\ r.stages = <<"explicit">>
            /\ r.err <=> (listed \cap env.c.fail.getPod # {})
            /\ r.err => r.pods = <<>>
            /\ ~r.err => /\ SeqSet(r.pods) = found
                         /\ Len(r.pods) = Cardinality(found)

C1_Witness ==
    /\ sel.pc = "done"
    /\ sel.selector.Pods # {}
    /\ ~sel.result.err
    /\ sel.selector.Namespaces = <<"kube-system">>
    /\ sel.selector.PodPhaseSelectors = <<"Running">>
    /\ sel.selector.LabelSelectors # {}
    /\ \E k \in 1 .. Len(sel.result.pods) :
          /\ sel.result.pods[k].namespace = "default"
          /\ sel.result.pods[k].phase = "Pending"
          /\ sel.result.pods[k].labels = {}
          /\ ~IsAllowedNamespaces(env.cfg, "default")

\* C8: every failure of a client call issued by SelectPods, other than
\* not-found on a single-item lookup, aborts the call with an error and no
\* pods.
C8_EveryFaultAborts ==
    (sel.pc = "done" /\ sel.result.faults # {})
        => (sel.result.err /\ sel.result.pods = <<>>)

\* C9: the node stage is a pure filter of the bulk list: its output holds,
\* once each and in order, exactly the listed pods whose node name is the name
\* of a resolved node, and is empty when no node is resolved.
C9_NodeStagePureFilter ==
    (sel.pc = "done" /\ sel.result.stages # <<>> /\ "listNodes" \notin sel.result.faults
       /\ \E k \in 1 .. Len(sel.result.stages) : sel.result.stages[k] = "node")
        => LET names == {sel.result.nodes[k].name : k \in 1 .. Len(sel.result.nodes)}
               onNode(pod) == pod.nodeName \in names
           IN  sel.result.nodeOut = SelectSeq(sel.result.fetched, onNode)

\* C6: with a non-empty selector.Pods, CheckPodMeetSelector returns false for
\* every pod that is not listed, a pod whose namespace is no key included.
C6_UnlistedNeverMeets ==
    (chk.pc = "done" /\ chk.selector.Pods # {}
       /\ PodId(chk.pod) \notin ListedPairs(chk.selector))
        => ~chk.result.ok

\* C2 as stated: for a selector without node or field constraints and any pod
\* of the cluster, CheckPodMeetSelector returns true iff the pod is in the
\* output of SelectPods, explicit Pods maps and namespace policies included.
C2_MeetIffSelected ==
    (sel.pc = "done" /\ chk.pc = "done")
        => (chk.result.ok <=> chk.pod \in SeqSet(sel.result.pods))

\* C2 amended: for a selector with an empty Pods map and without node or
\* field constraints, every pod in the output of SelectPods meets the
\* selector, and a pod that meets the selector is in the output of SelectPods
\* when its namespace passes the namespace policy and the list call succeeds.
C2_MeetIffSelectedAllowed ==
    (sel.pc = "done" /\ chk.pc = "done" /\ sel.selector.Pods = {})
        => /\ chk.pod \in SeqSet(sel.result.pods) => chk.result.ok
           /\ (IsAllowedNamespaces(env.cfg, chk.pod.namespace) /\ ~env.c.fail.listPods)
                => (chk.result.ok => chk.pod \in SeqSet(sel.result.pods))

C2_Witness ==
    /\ sel.pc = "done"
    /\ chk.pc = "done"
    /\ sel.selector.Pods = {}
    /\ sel.selector.LabelSelectors # {}
    /\ sel.selector.Namespaces = <<"!default">>
    /\ sel.selector.PodPhaseSelectors = <<"Running">>
    /\ env.cfg.AllowedNamespaces = "^kube-system$"
    /\ chk.result.ok
    /\ chk.pod \in SeqSet(sel.result.pods)
    /\ Len(sel.result.pods) = 1

====
